---------------------------- MODULE Spec2Model ----------------------------
(* A model of datasets/reconstruction.py: BaseReconstructionDataModule and   *)
(* its concrete variant Coco2014Reconstruction.  One data module object is   *)
(* constructed from parsed arguments; its public methods (prepare_data,      *)
(* setup, train_dataloader, val_dataloader, test_dataloader) are then called *)
(* in any order, and the returned DataLoader is iterated batch by batch.     *)
(* A call that raises leaves the object as the statements executed before    *)
(* the raise left it; the caller may go on calling.                          *)
EXTENDS Integers, Sequences, FiniteSets, TLC

VARIABLES
    args,       \* the parsed arguments handed to __init__
    disk,       \* the three split directories below args.data_dir
    self,       \* the attributes __init__ stores (the stored configuration)
    datasets,   \* the *_dataset attributes setup has assigned so far
    called,     \* the stages 'fit' / 'test' setup has been called with
    entered,    \* those of them for which a setup call returned normally
    stdout,     \* the lines printed by the latest call
    last,       \* the latest call and how it ended
    loader,     \* the DataLoader the latest successful provider call returned
    it          \* the iterator over that loader, if one was started

vars == <<args, disk, self, datasets, called, entered, stdout, last, loader, it>>

-----------------------------------------------------------------------------
(* Bounds of the model.                                                      *)
MaxRootLen == 1     \* characters in args.data_dir
MaxFiles   == 3     \* files in one split directory
MaxBatch   == 2     \* train_batch_size, eval_batch_size
MaxSamples == 3     \* num_samples
MaxPasses  == 2     \* full passes over one DataLoader

(* Strings are sequences of characters.                                      *)
train2014 == <<"t", "r", "a", "i", "n", "2", "0", "1", "4">>
val2014   == <<"v", "a", "l", "2", "0", "1", "4">>
test2014  == <<"t", "e", "s", "t", "2", "0", "1", "4">>
SubDirs   == {train2014, val2014, test2014}

RootChars == {"/", "d"}
Roots == UNION {[1..n -> RootChars] : n \in 0..MaxRootLen}

Min(a, b) == IF a < b THEN a ELSE b

-----------------------------------------------------------------------------
(* A variant that forgets the separator.                                     *)
os_path_join_concat(a, b) == a \o b

(* posixpath.join(a, b), as called at lines 87-89.                           *)
os_path_join(a, b) ==
    IF Len(b) > 0 /\ b[1] = "/" THEN b
    ELSE IF Len(a) = 0 \/ a[Len(a)] = "/" THEN a \o b
    ELSE a \o <<"/">> \o b

(* Coco2014Reconstruction._get_split_dirs                                    *)
_get_split_dirs(data_dir) ==
    << os_path_join(data_dir, train2014),
       os_path_join(data_dir, val2014),
       os_path_join(data_dir, test2014) >>

(* BaseReconstructionDataModule.__init__                                     *)
__init__(a) ==
    LET dirs == _get_split_dirs(a.data_dir)
    IN  [ train_dir        |-> dirs[1],
          val_dir          |-> dirs[2],
          test_dir         |-> dirs[3],
          train_batch_size |-> a.train_batch_size,
          eval_batch_size  |-> a.eval_batch_size,
          num_workers      |-> a.num_workers,
          num_samples      |-> a.num_samples ]


-----------------------------------------------------------------------------
(* The file system: disk[n] is the directory n below args.data_dir.          *)
DirStates == {[exists |-> FALSE, files |-> 0]}
             \cup {[exists |-> TRUE, files |-> k] : k \in 0..MaxFiles}

os_path_exists(path) ==
    \E n \in SubDirs : path = os_path_join(args.data_dir, n) /\ disk[n].exists

os_listdir(path) ==
    LET n == CHOOSE m \in SubDirs : path = os_path_join(args.data_dir, m)
    IN  disk[n].files

(* datasets.utils.ReconstructionDataset(root_dir=...): an indexable          *)
(* collection over the files found below root_dir.  The result is the set of *)
(* ways the construction can end; over a directory that is absent it either  *)
(* raises or finds no file.                                                  *)
ReconstructionDataset(root_dir) ==
    IF os_path_exists(root_dir)
    THEN {[exc |-> "none", ds |-> [root_dir |-> root_dir, len |-> os_listdir(root_dir)]]}
    ELSE {[exc |-> "FileNotFoundError", ds |-> [root_dir |-> root_dir, len |-> 0]],
          [exc |-> "none", ds |-> [root_dir |-> root_dir, len |-> 0]]}

(* self.<name> = value                                                       *)
SetAttr(d, name, value) ==
    [k \in DOMAIN d \cup {name} |-> IF k = name THEN value ELSE d[k]]

(* print(f'Loaded {n} <what> samples')                                       *)
Loaded(n, what) == [count |-> n, what |-> what]

-----------------------------------------------------------------------------
(* A variant without the third assertion.                                    *)
prepare_data_check_no_test ==
    IF ~(Len(self.train_dir) > 0 /\ os_path_exists(self.train_dir)) THEN "AssertionError"
    ELSE IF ~(Len(self.val_dir) > 0 /\ os_path_exists(self.val_dir)) THEN "AssertionError"
    ELSE "none"

(* prepare_data: the first assertion that fails raises.                      *)
prepare_data_check ==
    IF ~(Len(self.train_dir) > 0 /\ os_path_exists(self.train_dir)) THEN "AssertionError"
    ELSE IF ~(Len(self.val_dir) > 0 /\ os_path_exists(self.val_dir)) THEN "AssertionError"
    ELSE IF ~(Len(self.test_dir) > 0 /\ os_path_exists(self.test_dir)) THEN "AssertionError"
    ELSE "none"

(* `raise NotImplemented()`: NotImplemented is a constant, not an exception  *)
(* class; calling it raises TypeError before anything is raised.             *)
raise_NotImplemented == "TypeError"

(* A variant that builds the validation adapter over the training directory *)
setup_fit_val_from_train(d) ==
    UNION {
        IF t.exc # "none"
        THEN {[datasets |-> d, stdout |-> <<>>, err |-> t.exc]}
        ELSE LET d1 == SetAttr(d, "train_dataset", t.ds)
                 o1 == <<Loaded(d1["train_dataset"].len, "train")>>
             IN  { IF v.exc # "none"
                   THEN [datasets |-> d1, stdout |-> o1, err |-> v.exc]
                   ELSE LET d2 == SetAttr(d1, "val_dataset", v.ds)
                        IN  [datasets |-> d2,
                             stdout   |-> Append(o1, Loaded(d2["val_dataset"].len, "val")),
                             err      |-> "none"]
                   : v \in ReconstructionDataset(self.train_dir) }
        : t \in ReconstructionDataset(self.train_dir) }

(* setup, branch stage == 'fit'; d is the *_dataset attributes on entry.     *)
(* The result is the set of ways the branch can end.                         *)
setup_fit(d) ==
    UNION {
        IF t.exc # "none"
        THEN {[datasets |-> d, stdout |-> <<>>, err |-> t.exc]}
        ELSE LET d1 == SetAttr(d, "train_dataset", t.ds)
                 o1 == <<Loaded(d1["train_dataset"].len, "train")>>
             IN  { IF v.exc # "none"
                   THEN [datasets |-> d1, stdout |-> o1, err |-> v.exc]
                   ELSE LET d2 == SetAttr(d1, "val_dataset", v.ds)
                        IN  [datasets |-> d2,
                             stdout   |-> Append(o1, Loaded(d2["val_dataset"].len, "val")),
                             err      |-> "none"]
                   : v \in ReconstructionDataset(self.val_dir) }
        : t \in ReconstructionDataset(self.train_dir) }

(* A variant that drops the adapters of the other phase on entry.            *)
setup_test_dereferencing(d) ==
    { IF t.exc # "none"
      THEN [datasets |-> d, stdout |-> <<>>, err |-> t.exc]
      ELSE [datasets |-> SetAttr(<<>>, "test_dataset", t.ds),
            stdout   |-> <<Loaded(t.ds.len, "test")>>,
            err      |-> "none"]
      : t \in ReconstructionDataset(self.test_dir) }

(* setup, branch stage == 'test': the count printed is len(self.val_dataset) *)
setup_test(d) ==
    { IF t.exc # "none"
      THEN [datasets |-> d, stdout |-> <<>>, err |-> t.exc]
      ELSE LET d1 == SetAttr(d, "test_dataset", t.ds)
           IN  IF "val_dataset" \in DOMAIN d1
               THEN [datasets |-> d1,
                     stdout   |-> <<Loaded(d1["val_dataset"].len, "test")>>,
                     err      |-> "none"]
               ELSE [datasets |-> d1, stdout |-> <<>>, err |-> "AttributeError"]
      : t \in ReconstructionDataset(self.test_dir) }

(* setup, the else branch                                                    *)
setup_else(d) ==
    {[datasets |-> d, stdout |-> <<>>, err |-> raise_NotImplemented]}

Stages == {"fit", "test", "validate", "predict", "None"}

setup_outcomes(stage, d) ==
    IF stage = "fit" THEN setup_fit(d)
    ELSE IF stage = "test" THEN setup_test(d)
    ELSE setup_else(d)

-----------------------------------------------------------------------------
(* torch.utils.data, as used at lines 72-81.                                 *)

(* A variant without num_samples: one epoch is len(data_source) draws.       *)
RandomSampler_len(data_source, n) ==
    [exc |-> "none", sampler |-> [kind |-> "random", num_samples |-> data_source.len]]

(* RandomSampler(data_source, replacement=True, num_samples=n): one epoch is *)
(* n draws; a num_samples that is not positive is refused.                   *)
RandomSampler(data_source, n) ==
    IF n <= 0
    THEN [exc |-> "ValueError", sampler |-> [kind |-> "random", num_samples |-> 0]]
    ELSE [exc |-> "none", sampler |-> [kind |-> "random", num_samples |-> n]]

(* A variant with shuffle=True.                                              *)
SequentialSampler_shuffled(data_source) ==
    [exc |-> "none", sampler |-> [kind |-> "random", num_samples |-> data_source.len]]

(* shuffle=False: DataLoader builds SequentialSampler(dataset), one epoch is *)
(* range(len(dataset)).                                                      *)
SequentialSampler(data_source) ==
    [exc |-> "none", sampler |-> [kind |-> "sequential", num_samples |-> data_source.len]]

(* DataLoader(dataset, batch_size=..., sampler=...): its BatchSampler        *)
(* refuses a batch_size that is not positive.                                *)
DataLoader(dataset, batch_size, sampler) ==
    IF batch_size <= 0
    THEN [exc |-> "ValueError", dl |-> <<>>]
    ELSE [exc |-> "none",
          dl  |-> <<[dataset |-> dataset, batch_size |-> batch_size, sampler |-> sampler]>>]

Raise(e) == [exc |-> e, dl |-> <<>>]

(* A variant that reads self.test_dataset.                                   *)
train_dataloader_reads_test ==
    IF "test_dataset" \notin DOMAIN datasets THEN Raise("AttributeError")
    ELSE LET s == RandomSampler(datasets["test_dataset"], self.num_samples)
         IN  IF s.exc # "none" THEN Raise(s.exc)
             ELSE DataLoader(datasets["test_dataset"], self.train_batch_size, s.sampler)

(* A variant that reads self.val_dataset.                                    *)
test_dataloader_reads_val ==
    IF "val_dataset" \notin DOMAIN datasets THEN Raise("AttributeError")
    ELSE DataLoader(datasets["val_dataset"], self.eval_batch_size,
                    SequentialSampler(datasets["val_dataset"]).sampler)

(* The arguments are evaluated left to right, self.train_dataset first.      *)
train_dataloader_result ==
    IF "train_dataset" \notin DOMAIN datasets THEN Raise("AttributeError")
    ELSE LET s == RandomSampler(datasets["train_dataset"], self.num_samples)
         IN  IF s.exc # "none" THEN Raise(s.exc)
             ELSE DataLoader(datasets["train_dataset"], self.train_batch_size, s.sampler)

test_dataloader_result ==
    IF "test_dataset" \notin DOMAIN datasets THEN Raise("AttributeError")
    ELSE DataLoader(datasets["test_dataset"], self.eval_batch_size,
                    SequentialSampler(datasets["test_dataset"]).sampler)

val_dataloader_result ==
    IF "val_dataset" \notin DOMAIN datasets THEN Raise("AttributeError")
    ELSE DataLoader(datasets["val_dataset"], self.eval_batch_size,
                    SequentialSampler(datasets["val_dataset"]).sampler)

(* The index sequences the sampler can hand to the next batch of k samples,  *)
(* pos samples into the epoch.  Drawing from an empty data source fails      *)
(* (no sequence).                                                            *)
SamplerDraw(l, pos, k) ==
    IF l.sampler.kind = "sequential"
    THEN {[j \in 1..k |-> pos + j - 1]}
    ELSE [1..k -> 0..(l.dataset.len - 1)]

(* iter(loader): a fresh iterator, at the start of the epoch.                *)
NewIterator(pass) ==
    [pos |-> 0, nb |-> 0, batch |-> <<>>, stop |-> FALSE, pass |-> pass]

(* next(iterator): the BatchSampler groups the sampler's indices batch_size  *)
(* at a time and keeps the shorter last batch (drop_last=False).             *)
BatchLen(l, i) == Min(l.batch_size, l.sampler.num_samples - i.pos)

next_outcomes(l, i) ==
    IF i.stop \/ i.pos >= l.sampler.num_samples
    THEN {[it |-> [i EXCEPT !.stop = TRUE], err |-> "StopIteration"]}
    ELSE LET k == BatchLen(l, i)
             draws == SamplerDraw(l, i.pos, k)
         IN  IF draws = {}
             THEN {[it |-> i, err |-> "RuntimeError"]}
             ELSE {[it  |-> [i EXCEPT !.pos = i.pos + k, !.nb = i.nb + 1, !.batch = b],
                    err |-> "none"] : b \in draws}

-----------------------------------------------------------------------------
(* The calls.                                                                *)
NumWorkers == 4

Call(op, arg, err) == [op |-> op, arg |-> arg, err |-> err]

prepare_data ==
    /\ last' = Call("prepare_data", "", prepare_data_check)
    /\ stdout' = <<>>
    /\ UNCHANGED <<args, disk, self, datasets, called, entered, loader, it>>

setup(stage) ==
    \E r \in setup_outcomes(stage, datasets) :
        /\ datasets' = r.datasets
        /\ stdout' = r.stdout
        /\ last' = Call("setup", stage, r.err)
        /\ called' = called \cup ({stage} \cap {"fit", "test"})
        /\ entered' = IF r.err = "none" THEN entered \cup {stage} ELSE entered
        /\ UNCHANGED <<args, disk, self, loader, it>>

Provide(op, r) ==
    /\ last' = Call(op, "", r.exc)
    /\ stdout' = <<>>
    /\ loader' = IF r.exc = "none" THEN r.dl ELSE loader
    /\ it' = IF r.exc = "none" THEN <<>> ELSE it
    /\ UNCHANGED <<args, disk, self, datasets, called, entered>>

train_dataloader == Provide("train_dataloader", train_dataloader_result)

test_dataloader == Provide("test_dataloader", test_dataloader_result)

val_dataloader == Provide("val_dataloader", val_dataloader_result)

Passes == IF it = <<>> THEN 0 ELSE it[1].pass

iter ==
    /\ loader # <<>>
    /\ Passes < MaxPasses
    /\ it' = <<NewIterator(Passes + 1)>>
    /\ last' = Call("iter", "", "none")
    /\ stdout' = <<>>
    /\ UNCHANGED <<args, disk, self, datasets, called, entered, loader>>

next ==
    /\ loader # <<>>
    /\ it # <<>>
    /\ \E r \in next_outcomes(loader[1], it[1]) :
        /\ it' = <<r.it>>
        /\ last' = Call("next", "", r.err)
    /\ stdout' = <<>>
    /\ UNCHANGED <<args, disk, self, datasets, called, entered, loader>>

Next ==
    \/ prepare_data
    \/ \E stage \in Stages : setup(stage)
    \/ train_dataloader
    \/ test_dataloader
    \/ val_dataloader
    \/ iter
    \/ next

-----------------------------------------------------------------------------
(* The states after construction.                                            *)
Present(k) == [exists |-> TRUE, files |-> k]

InitWith(roots, disks, Bs, Es, Ns) ==
    /\ args \in {[data_dir |-> r, train_batch_size |-> b, eval_batch_size |-> e,
                  num_workers |-> NumWorkers, num_samples |-> n]
                 : r \in roots, b \in Bs, e \in Es, n \in Ns}
    /\ disk \in disks
    /\ self = __init__(args)
    /\ datasets = <<>>
    /\ called = {}
    /\ entered = {}
    /\ stdout = <<>>
    /\ last = Call("__init__", "", "none")
    /\ loader = <<>>
    /\ it = <<>>

(* The life cycle: any state of the three directories, one root, one valid   *)
(* configuration.                                                            *)
Init == InitWith({<<"d">>}, [SubDirs -> DirStates], {1}, {1}, {1})

Spec == Init /\ [][Next]_vars

(* The split paths: any root, each directory absent or holding one file.     *)
InitPaths ==
    InitWith(Roots, [SubDirs -> {[exists |-> FALSE, files |-> 0], Present(1)}], {1}, {1}, {1})

SpecPaths == InitPaths /\ [][Next]_vars

(* The training provider: any train_batch_size, num_samples and number of    *)
(* training files.                                                           *)
InitTrain ==
    InitWith({<<"d">>},
             {[n \in SubDirs |-> Present(IF n = train2014 THEN k ELSE 1)] : k \in 0..MaxFiles},
             0..MaxBatch, {1}, 0..MaxSamples)

SpecTrain == InitTrain /\ [][Next]_vars

(* The evaluation providers: any eval_batch_size and numbers of validation   *)
(* and test files.                                                           *)
InitEval ==
    InitWith({<<"d">>},
             {[n \in SubDirs |-> Present(IF n = val2014 THEN v ELSE IF n = test2014 THEN t ELSE 1)]
              : v \in 0..MaxFiles, t \in 0..MaxFiles},
             {1}, 0..MaxBatch, {1})

SpecEval == InitEval /\ [][Next]_vars

-----------------------------------------------------------------------------
(* Vocabulary of the properties.                                             *)
Held == DOMAIN datasets

AllDirsExist == \A n \in SubDirs : disk[n].exists

EndsWith(p, name) ==
    /\ Len(p) >= Len(name)
    /\ SubSeq(p, Len(p) - Len(name) + 1, Len(p)) = name

(* p is the directory `name` directly below the root R.                      *)
NestedUnder(p, R, name) ==
    /\ Len(p) = Len(R) + Len(name) + (IF R[Len(R)] = "/" THEN 0 ELSE 1)
    /\ SubSeq(p, 1, Len(R)) = R
    /\ EndsWith(p, name)
    /\ p[Len(p) - Len(name)] = "/"

Ceil(n, b) == (n + b - 1) \div b

IsSetup(l, stage) == l.op = "setup" /\ l.arg = stage

-----------------------------------------------------------------------------
(* C1: once a setup('fit') call has returned, a train_dataloader request     *)
(* never fails for a missing adapter; and as long as setup was never called  *)
(* with 'test', a test_dataloader request fails with AttributeError.         *)
C1_FitOrdering ==
    /\ (last.op = "train_dataloader" /\ "fit" \in entered)
           => last.err # "AttributeError"
    /\ (last.op = "test_dataloader" /\ "fit" \in entered /\ "test" \notin called)
           => last.err = "AttributeError"

C1_Witness ==
    /\ last.op = "test_dataloader"
    /\ last.err = "AttributeError"
    /\ "fit" \in entered
    /\ loader # <<>>
    /\ loader[1].dataset.root_dir = self.train_dir

(* C2: a provider request for a split whose adapter was never constructed    *)
(* (in particular when setup was never called with the matching stage) fails *)
(* with AttributeError, and the failed request leaves the adapters and the   *)
(* stored configuration as they were.                                        *)
ProviderOf == [train_dataset |-> "train_dataloader",
               val_dataset   |-> "val_dataloader",
               test_dataset  |-> "test_dataloader"]

StageOf == [train_dataset |-> "fit", val_dataset |-> "fit", test_dataset |-> "test"]

C2_MissingAdapter ==
    [][\A a \in DOMAIN ProviderOf :
        (last'.op = ProviderOf[a] /\ (a \notin Held \/ StageOf[a] \notin called))
            => /\ last'.err = "AttributeError"
               /\ datasets' = datasets
               /\ self' = self
               /\ loader' = loader]_vars

C2_Witness ==
    /\ last.op = "val_dataloader"
    /\ last.err = "AttributeError"
    /\ Held = {"test_dataset"}

(* C3: setup('test') returns normally, constructs the test adapter, and the  *)
(* count it prints is the test adapter's own length, whether or not 'fit'    *)
(* was entered before (stated for split directories that all exist).        *)
C3_TestCount ==
    (IsSetup(last, "test") /\ AllDirsExist)
        => /\ last.err = "none"
           /\ "test_dataset" \in Held
           /\ stdout = <<Loaded(datasets["test_dataset"].len, "test")>>

(* C7: setup with a stage other than 'fit' and 'test' raises                 *)
(* NotImplementedError and constructs no adapter.                            *)
C7_Unimplemented ==
    [][(last'.op = "setup" /\ last'.arg \notin {"fit", "test"})
        => /\ last'.err = "NotImplementedError"
           /\ datasets' = datasets]_vars

(* C8: for a non-empty root R the three split paths are non-empty, pairwise  *)
(* distinct, and are the directories train2014, val2014, test2014 directly   *)
(* below R, in that order.                                                   *)
C8_SplitDirs ==
    LET R == args.data_dir
    IN  Len(R) > 0 =>
            /\ NestedUnder(self.train_dir, R, train2014)
            /\ NestedUnder(self.val_dir, R, val2014)
            /\ NestedUnder(self.test_dir, R, test2014)
            /\ Cardinality({self.train_dir, self.val_dir, self.test_dir}) = 3
            /\ <<>> \notin {self.train_dir, self.val_dir, self.test_dir}

C8_Witness ==
    /\ args.data_dir = <<"d">>
    /\ self.val_dir = <<"d", "/", "v", "a", "l", "2", "0", "1", "4">>
    /\ last.op = "prepare_data"

(* C9: a setup('fit') call that returns has constructed the train and the    *)
(* validation adapter, each over its own split directory, has printed their  *)
(* two lengths in that order, and has left the test adapter as it was.       *)
C9_FitAdapters ==
    [][(IsSetup(last', "fit") /\ last'.err = "none")
        => /\ {"train_dataset", "val_dataset"} \subseteq DOMAIN datasets'
           /\ datasets'["train_dataset"].root_dir = self.train_dir
           /\ datasets'["val_dataset"].root_dir = self.val_dir
           /\ EndsWith(datasets'["train_dataset"].root_dir, train2014)
           /\ EndsWith(datasets'["val_dataset"].root_dir, val2014)
           /\ datasets'["train_dataset"].len = disk[train2014].files
           /\ datasets'["val_dataset"].len = disk[val2014].files
           /\ stdout' = << Loaded(datasets'["train_dataset"].len, "train"),
                           Loaded(datasets'["val_dataset"].len, "val") >>
           /\ ("test_dataset" \in DOMAIN datasets') = ("test_dataset" \in DOMAIN datasets)
           /\ ("test_dataset" \in DOMAIN datasets)
                  => datasets'["test_dataset"] = datasets["test_dataset"]]_vars

C9_Witness ==
    /\ IsSetup(last, "fit")
    /\ last.err = "none"
    /\ Held = {"train_dataset", "val_dataset"}
    /\ datasets["train_dataset"].len = 3
    /\ datasets["val_dataset"].len = 2
    /\ stdout = <<Loaded(3, "train"), Loaded(2, "val")>>

-----------------------------------------------------------------------------
(* The iteration in progress over the training loader / an evaluation loader *)
Iterating == loader # <<>> /\ it # <<>>

OverTrain == loader[1].dataset.root_dir = self.train_dir

(* C4: with num_samples = N, train_batch_size = B >= 1 and S >= 1 training   *)
(* files, every batch of the training loader holds indices in 0..S-1, every  *)
(* batch but the last holds B of them, and the epoch ends after exactly N    *)
(* samples in Ceil(N, B) batches, whatever S is.                             *)
C4_TrainEpoch ==
    (Iterating /\ OverTrain) =>
        LET N == self.num_samples
            B == self.train_batch_size
            S == disk[train2014].files
            i == it[1]
        IN  (B >= 1 /\ S >= 1) =>
                /\ \A j \in 1..Len(i.batch) : i.batch[j] \in 0..(S - 1)
                /\ i.nb >= 1 => Len(i.batch) = (IF i.nb < Ceil(N, B) THEN B
                                                ELSE N - (Ceil(N, B) - 1) * B)
                /\ i.nb <= Ceil(N, B)
                /\ i.pos <= N
                /\ i.stop => (i.pos = N /\ i.nb = Ceil(N, B))

C4_Witness ==
    /\ Iterating /\ OverTrain
    /\ self.num_samples = 3 /\ self.train_batch_size = 2
    /\ disk[train2014].files = 2
    /\ it[1].stop /\ it[1].nb = 2 /\ it[1].pos = 3
    /\ it[1].batch = <<1>>

(* C5: over a validation or test adapter of S files with eval_batch_size E,  *)
(* the k-th batch of every pass is the indices (k-1)E .. min(kE, S) - 1 in   *)
(* that order, and a pass ends after Ceil(S, E) batches: every pass yields   *)
(* the same batches in the same order.                                       *)
C5_EvalEpoch ==
    (Iterating /\ ~OverTrain) =>
        LET E == self.eval_batch_size
            S == loader[1].dataset.len
            i == it[1]
        IN  /\ E >= 1
            /\ S = os_listdir(loader[1].dataset.root_dir)
            /\ i.nb >= 1 => i.batch = [j \in 1..Min(E, S - (i.nb - 1) * E)
                                          |-> (i.nb - 1) * E + j - 1]
            /\ i.pos = Min(i.nb * E, S)
            /\ i.nb <= Ceil(S, E)
            /\ i.stop => i.nb = Ceil(S, E)

C5_Witness ==
    /\ Iterating /\ ~OverTrain
    /\ it[1].pass = 2 /\ it[1].stop
    /\ self.eval_batch_size = 2
    /\ loader[1].dataset.len = 3
    /\ it[1].nb = 2 /\ it[1].batch = <<2>>

(* C6 as claimed: prepare_data raises AssertionError exactly when a split    *)
(* path is empty or absent, and no adapter ever exists while a split         *)
(* directory is absent.  (Stated for the runs in which every setup call has  *)
(* returned and every adapter was built over an existing directory, so that  *)
(* a violation owes nothing to a call that raised.)                          *)
CleanRun ==
    /\ called = entered
    /\ \A a \in DOMAIN datasets : os_path_exists(datasets[a].root_dir)

PathsOk ==
    \A p \in {self.train_dir, self.val_dir, self.test_dir} :
        Len(p) > 0 /\ os_path_exists(p)

C6_NoAdapterWhileAbsent ==
    /\ last.op = "prepare_data" => (last.err = "AssertionError" <=> ~PathsOk)
    /\ (CleanRun /\ Held # {}) => AllDirsExist

(* C6 as amended: prepare_data raises AssertionError exactly when a split    *)
(* path is empty or absent and itself constructs nothing; a setup that       *)
(* follows a prepare_data call that passed constructs adapters only with all *)
(* three directories present.  setup does not make the check itself.         *)
C6_CheckBeforeSetup ==
    [][/\ last'.op = "prepare_data"
            => /\ last'.err = (IF PathsOk THEN "none" ELSE "AssertionError")
               /\ PathsOk <=> AllDirsExist
               /\ datasets' = datasets /\ self' = self /\ loader' = loader
       /\ (last.op = "prepare_data" /\ last.err = "none" /\ last'.op = "setup")
            => (DOMAIN datasets' # {} => AllDirsExist)
       /\ disk' = disk]_vars

C6_Witness ==
    /\ last.op = "prepare_data"
    /\ last.err = "AssertionError"
    /\ disk[train2014].exists /\ disk[val2014].exists /\ ~disk[test2014].exists
    /\ Held = {}

(* C10 as claimed: entering a phase drops the adapters of the other phase,   *)
(* so after setup('fit') then setup('test') the train and validation         *)
(* adapters are gone, and the three adapters are never held together.        *)
(* (Stated for the same runs as C6: every setup call has returned, every     *)
(* adapter was built over an existing directory.)                            *)
AllAdapters == {"train_dataset", "val_dataset", "test_dataset"}

C10_OnlyActivePhase ==
    CleanRun =>
        /\ Held # AllAdapters
        /\ (IsSetup(last, "test") /\ last.err = "none")
               => Held \cap {"train_dataset", "val_dataset"} = {}

(* C10 as amended: a setup call constructs only the adapters of its own      *)
(* stage, no call ever drops an adapter, and a provider whose adapter is     *)
(* held never fails for a missing adapter: after setup('fit') then           *)
(* setup('test') all three adapters are held.                                *)
C10_AdaptersAccumulate ==
    [][/\ DOMAIN datasets \subseteq DOMAIN datasets'
       /\ IsSetup(last', "fit")
            => DOMAIN datasets' \subseteq DOMAIN datasets \cup {"train_dataset", "val_dataset"}
       /\ IsSetup(last', "test")
            => DOMAIN datasets' \subseteq DOMAIN datasets \cup {"test_dataset"}
       /\ ~(IsSetup(last', "fit") \/ IsSetup(last', "test"))
            => datasets' = datasets
       /\ \A a \in DOMAIN datasets :
            last'.op = ProviderOf[a] => last'.err # "AttributeError"
       /\ (IsSetup(last', "test") /\ last'.err = "none" /\ "fit" \in entered)
            => DOMAIN datasets' = AllAdapters]_vars

C10_Witness ==
    /\ Held = AllAdapters
    /\ entered = {"fit", "test"}
    /\ last.op = "val_dataloader"
    /\ last.err = "none"

=============================================================================
